---- MODULE Spec2Model ----
(***************************************************************************)
(* A model of the PR size metrics tool: the metrics store (pr_metrics.py)  *)
(* and the report synthesizer (report_generator.py).                       *)
(*                                                                         *)
(* Values.  A missing numeric cell (pandas NaN) is the integer NaN, a      *)
(* missing timestamp (pandas NaT) is the integer NaT, a missing text cell  *)
(* is the string NoText.  A float is the exact fraction [num, den] it      *)
(* stands for; the float NaN is the fraction with den = 0.                 *)
(***************************************************************************)
EXTENDS Integers, Sequences, FiniteSets, TLC

VARIABLES
    df,       \* PRMetrics.df: None or a table [columns, rows]
    loads,    \* number of load_data calls made on this store so far
    call,     \* the last operation called, with its arguments
    result    \* what that operation returned or raised

vars == <<df, loads, call, result>>

(***************************************************************************)
(* Bounds of the model                                                     *)
(***************************************************************************)
MaxTotalLines == 2100   \* categorize_pr_size is applied to 0..MaxTotalLines
MaxRows == 3            \* records in a table the queries are applied to
MaxSourceRows == 2      \* records in a source handed to load_data
MaxLoads == 2           \* load_data calls on one store
MaxWindow == 4          \* largest count given to get_recent_trends
MaxLimit == 3           \* largest count given to head/tail style queries
MaxStat == 4            \* largest total_prs of a stats dictionary given to a section
MaxLadderTotal == 20    \* largest total_prs given to the insights and recommendations
MaxTitleLen == 52       \* longest title of a record given to the large-PRs section
MaxSectionRows == 2     \* records in a table the report sections are applied to

(***************************************************************************)
(* Missing values, floats, outcomes                                        *)
(***************************************************************************)
None == [none |-> TRUE]
NaN == -1
NaT == -1
NoText == "nan"

Frac(n, d) == [num |-> n, den |-> d]
Float0 == Frac(0, 1)
FloatNaN == Frac(0, 0)
IsNaNFloat(f) == f.den = 0

Return(v) == [status |-> "return", value |-> v]
Raise(e) == [status |-> "raise", value |-> e]

Min(a, b) == IF a <= b THEN a ELSE b

(***************************************************************************)
(* Sequences                                                               *)
(***************************************************************************)
SeqsUpTo(S, n) == UNION {[1..k -> S] : k \in 0..n}

RECURSIVE Filter(_, _)
\* df[mask]: the rows whose mask entry is true, in table order
Filter(rows, mask) ==
    IF rows = <<>> THEN <<>>
    ELSE IF Head(mask) THEN <<Head(rows)>> \o Filter(Tail(rows), Tail(mask))
         ELSE Filter(Tail(rows), Tail(mask))

\* DataFrame.head(n) and DataFrame.tail(n) for n >= 0
head(rows, n) == SubSeq(rows, 1, Min(n, Len(rows)))
tail(rows, n) == SubSeq(rows, Len(rows) - Min(n, Len(rows)) + 1, Len(rows))

RECURSIVE SumPresent(_)
\* sum of the cells that are not NaN
SumPresent(cells) ==
    IF cells = <<>> THEN 0
    ELSE (IF Head(cells) = NaN THEN 0 ELSE Head(cells)) + SumPresent(Tail(cells))

RECURSIVE CountPresent(_)
CountPresent(cells) ==
    IF cells = <<>> THEN 0
    ELSE (IF Head(cells) = NaN THEN 0 ELSE 1) + CountPresent(Tail(cells))

\* df[name]: the cells of one column, in table order
Column(rows, name) == [i \in 1..Len(rows) |-> rows[i][name]]

\* Series.mean(): NaN cells are skipped; NaN when no cell is present
mean(cells) ==
    IF CountPresent(cells) = 0 THEN FloatNaN
    ELSE Frac(SumPresent(cells), CountPresent(cells))


(***************************************************************************)
(* categorize_pr_size                                                      *)
(***************************************************************************)
Ideal == "Ideal (<=500)"
Good == "Good (501-1500)"
Large == "Large (1501-2000)"
TooLarge == "Too Large (>2000)"

\* a comparison with NaN is false
Le(x, b) == x # NaN /\ x <= b
Gt(x, b) == x # NaN /\ x > b

\* the boolean Series of a comparison on a column, and the & of two of them
LeMask(cells, b) == [i \in 1..Len(cells) |-> Le(cells[i], b)]
GtMask(cells, b) == [i \in 1..Len(cells) |-> Gt(cells[i], b)]
EqMask(cells, v) == [i \in 1..Len(cells) |-> cells[i] = v]
AndMask(m1, m2) == [i \in 1..Len(m1) |-> m1[i] /\ m2[i]]

categorize_pr_size_off_by_one(total_lines) ==
    IF total_lines < 500 THEN Ideal
    ELSE IF total_lines <= 1500 THEN Good
    ELSE IF total_lines <= 2000 THEN Large
    ELSE TooLarge

categorize_pr_size(total_lines) ==
    IF Le(total_lines, 500) THEN Ideal
    ELSE IF Le(total_lines, 1500) THEN Good
    ELSE IF Le(total_lines, 2000) THEN Large
    ELSE TooLarge

(***************************************************************************)
(* The source file and load_data                                           *)
(***************************************************************************)
AllColumns ==
    {"date", "pr_number", "title", "author", "total_lines", "additions",
     "deletions", "changed_files", "category", "url"}
required_columns == {"date", "total_lines", "pr_number"}

GoodDates == {"2024-01-15", "2024-01-16"}
BlankDate == ""
BadDate == "not-a-date"

\* pd.to_datetime on one cell: a timestamp (its day), NaT for a blank cell
to_datetime(cell) ==
    CASE cell = "2024-01-15" -> 15
      [] cell = "2024-01-16" -> 16
      [] cell = BlankDate -> NaT
\* pd.to_datetime raises ValueError on a cell that is no timestamp
DateParses(cell) == cell \in GoodDates \cup {BlankDate}

\* a row as read_csv types it: numbers are integers or NaN, text is text or
\* NoText, the date is still the text of the cell; pr_number is its position
RawRow(i, v) ==
    [date |-> v.date, pr_number |-> 100 + i, title |-> v.title,
     total_lines |-> v.total_lines, changed_files |-> v.changed_files,
     author |-> v.author, url |-> v.url]
Csv(cols, cells) ==
    [kind |-> "csv", columns |-> cols,
     rows |-> [i \in 1..Len(cells) |-> RawRow(i, cells[i])]]
MissingFile == [kind |-> "missing", columns |-> {}, rows |-> <<>>]
EmptyFile == [kind |-> "empty", columns |-> {}, rows |-> <<>>]
MalformedFile == [kind |-> "malformed", columns |-> {}, rows |-> <<>>]
UnreadableFile == [kind |-> "unreadable", columns |-> {}, rows |-> <<>>]

\* pd.read_csv: the table, or the exception it raises
read_csv(src) ==
    CASE src.kind = "empty" -> Raise("EmptyDataError")
      [] src.kind = "malformed" -> Raise("ParserError")
      [] src.kind = "unreadable" -> Raise("PermissionError")
      [] src.kind = "csv" -> Return([columns |-> src.columns, rows |-> src.rows])

ConvertDates(rows) ==
    [i \in 1..Len(rows) |-> [rows[i] EXCEPT !.date = to_datetime(rows[i].date)]]

CaughtByLoad == {"EmptyDataError", "ParserError", "ValueError", "KeyError"}

\* load_data on a store holding d, the file being src: the new df and the outcome
load_data(d, src) ==
    IF src.kind = "missing" THEN [df |-> d, result |-> Return(FALSE)]
    ELSE LET read == read_csv(src) IN
         IF read.status = "raise"
         THEN IF read.value \in CaughtByLoad
              THEN [df |-> None, result |-> Return(FALSE)]
              ELSE [df |-> d, result |-> read]
         ELSE LET t == read.value IN
              IF required_columns \ t.columns # {}
              THEN [df |-> None, result |-> Return(FALSE)]
              ELSE IF \E i \in 1..Len(t.rows) : ~DateParses(t.rows[i].date)
                   THEN [df |-> None, result |-> Return(FALSE)]
                   ELSE [df |-> [t EXCEPT !.rows = ConvertDates(t.rows)],
                         result |-> Return(TRUE)]

is_loaded_ignores_emptiness(d) == d # None

is_loaded(d) == d # None /\ d.rows # <<>>

(***************************************************************************)
(* Aggregation queries                                                     *)
(***************************************************************************)
get_size_distribution(d) ==
    IF ~is_loaded(d) THEN Return(<<0, 0, 0, 0>>)
    ELSE IF "total_lines" \notin d.columns THEN Raise("KeyError")
    ELSE Return(
        LET lines == Column(d.rows, "total_lines") IN
        <<Len(Filter(d.rows, LeMask(lines, 500))),
          Len(Filter(d.rows, AndMask(GtMask(lines, 500), LeMask(lines, 1500)))),
          Len(Filter(d.rows, AndMask(GtMask(lines, 1500), LeMask(lines, 2000)))),
          Len(Filter(d.rows, GtMask(lines, 2000)))>>)

get_averages_unguarded(d) ==
    IF d = None THEN Raise("TypeError")
    ELSE IF "total_lines" \notin d.columns \/ "changed_files" \notin d.columns
         THEN Raise("KeyError")
    ELSE Return(<<mean(Column(d.rows, "total_lines")), mean(Column(d.rows, "changed_files"))>>)

get_averages(d) ==
    IF ~is_loaded(d) THEN Return(<<Float0, Float0>>)
    ELSE IF "total_lines" \notin d.columns \/ "changed_files" \notin d.columns
         THEN Raise("KeyError")
    ELSE Return(<<mean(Column(d.rows, "total_lines")), mean(Column(d.rows, "changed_files"))>>)

\* the rows get_recent_trends averages over
recent_df_head(d, count) == IF Len(d.rows) >= count THEN head(d.rows, count) ELSE d.rows

recent_df(d, count) == IF Len(d.rows) >= count THEN tail(d.rows, count) ELSE d.rows

get_recent_trends(d, count) ==
    IF ~is_loaded(d) THEN Return(<<Float0, Float0>>)
    ELSE IF "total_lines" \notin d.columns \/ "changed_files" \notin d.columns
         THEN Raise("KeyError")
    ELSE LET recent == recent_df(d, count) IN
         Return(<<IF recent # <<>> THEN mean(Column(recent, "total_lines")) ELSE Float0,
                  IF recent # <<>> THEN mean(Column(recent, "changed_files")) ELSE Float0>>)

\* Series.value_counts(): one (author, count) entry for each author that is
\* not missing, in descending order of count.  The sort behind it is not a
\* stable one (sort_values, kind "quicksort"), so entries of equal count come
\* in any order: every order the sort can leave is a possible outcome.
AuthorsOf(rows) == {rows[i].author : i \in 1..Len(rows)} \ {NoText}
CountOf(rows, a) == Cardinality({i \in 1..Len(rows) : rows[i].author = a})
value_counts_ascending(rows) ==
    LET A == AuthorsOf(rows)
        n == Cardinality(A)
    IN {[i \in 1..n |-> <<order[i], CountOf(rows, order[i])>>] :
          order \in {o \in [1..n -> A] :
                       /\ \A i, j \in 1..n : i # j => o[i] # o[j]
                       /\ \A i, j \in 1..n :
                            i < j => CountOf(rows, o[i]) <= CountOf(rows, o[j])}}

value_counts(rows) ==
    LET A == AuthorsOf(rows)
        n == Cardinality(A)
    IN {[i \in 1..n |-> <<order[i], CountOf(rows, order[i])>>] :
          order \in {o \in [1..n -> A] :
                       /\ \A i, j \in 1..n : i # j => o[i] # o[j]
                       /\ \A i, j \in 1..n :
                            i < j => CountOf(rows, o[i]) >= CountOf(rows, o[j])}}

\* the set of outcomes get_top_contributors can have
get_top_contributors(d, count) ==
    IF ~is_loaded(d) THEN {Return(<<>>)}
    ELSE IF "author" \notin d.columns THEN {Raise("KeyError")}
    ELSE {Return(head(vc, count)) : vc \in value_counts(d.rows)}

get_large_prs_inclusive(d, min_lines, count) ==
    IF ~is_loaded(d) THEN Return(<<>>)
    ELSE IF "total_lines" \notin d.columns THEN Raise("KeyError")
    ELSE Return(tail(Filter(d.rows, [i \in 1..Len(d.rows) |->
                                             d.rows[i].total_lines >= min_lines]), count))

get_large_prs(d, min_lines, count) ==
    IF ~is_loaded(d) THEN Return(<<>>)
    ELSE IF "total_lines" \notin d.columns THEN Raise("KeyError")
    ELSE Return(tail(Filter(d.rows, GtMask(Column(d.rows, "total_lines"), min_lines)), count))

\* the increasing sequence of the members of a finite set of integers
Ascending(S) ==
    CHOOSE s \in [1..Cardinality(S) -> S] :
        \A i, j \in 1..Cardinality(S) : i < j => s[i] < s[j]

get_daily_averages(d) ==
    IF ~is_loaded(d) THEN Return(<<>>)
    ELSE IF "date" \notin d.columns \/ "total_lines" \notin d.columns
         THEN Raise("KeyError")
    ELSE LET days == Ascending({d.rows[i].date : i \in 1..Len(d.rows)} \ {NaT}) IN
         Return([k \in 1..Len(days) |->
                   [date |-> days[k],
                    total_lines |->
                        mean(Column(Filter(d.rows, EqMask(Column(d.rows, "date"), days[k])),
                                    "total_lines"))]])

ZeroSummary ==
    [total_prs |-> 0, avg_lines |-> Float0, avg_files |-> Float0,
     ideal_count |-> 0, good_count |-> 0, large_count |-> 0,
     too_large_count |-> 0, recent_avg_lines |-> Float0,
     recent_avg_files |-> Float0]

DefaultRecentCount == 30

get_statistics_summary_swapped_counts(d) ==
    IF ~is_loaded(d) THEN Return(ZeroSummary)
    ELSE LET avg == get_averages(d)
             dist == get_size_distribution(d)
             recent == get_recent_trends(d, DefaultRecentCount)
         IN IF avg.status = "raise" THEN avg
            ELSE IF dist.status = "raise" THEN dist
            ELSE IF recent.status = "raise" THEN recent
            ELSE Return(
                [total_prs |-> Len(d.rows),
                 avg_lines |-> avg.value[1], avg_files |-> avg.value[2],
                 ideal_count |-> dist.value[1], good_count |-> dist.value[2],
                 large_count |-> dist.value[4], too_large_count |-> dist.value[3],
                 recent_avg_lines |-> recent.value[1],
                 recent_avg_files |-> recent.value[2]])

get_statistics_summary(d) ==
    IF ~is_loaded(d) THEN Return(ZeroSummary)
    ELSE LET avg == get_averages(d)
             dist == get_size_distribution(d)
             recent == get_recent_trends(d, DefaultRecentCount)
         IN IF avg.status = "raise" THEN avg
            ELSE IF dist.status = "raise" THEN dist
            ELSE IF recent.status = "raise" THEN recent
            ELSE Return(
                [total_prs |-> Len(d.rows),
                 avg_lines |-> avg.value[1], avg_files |-> avg.value[2],
                 ideal_count |-> dist.value[1], good_count |-> dist.value[2],
                 large_count |-> dist.value[3], too_large_count |-> dist.value[4],
                 recent_avg_lines |-> recent.value[1],
                 recent_avg_files |-> recent.value[2]])

(***************************************************************************)
(* The report synthesizer                                                  *)
(***************************************************************************)
\* format(x, ".1f") of the float num/den (den > 0): the tenths it prints
RoundTenths(num, den) ==
    LET q == (num * 10) \div den
        r == (num * 10) % den
    IN IF 2 * r > den THEN q + 1
       ELSE IF 2 * r < den THEN q
       ELSE IF q % 2 = 0 THEN q ELSE q + 1

\* f"{x:.1f}": the tenths printed, or NaN for "nan"
Format1f(f) == IF IsNaNFloat(f) THEN NaN ELSE RoundTenths(f.num, f.den)

\* x / total_prs * 100
Percentage(count, total_prs) == Frac(count * 100, total_prs)

NoDistribution == "No data available for distribution analysis."

generate_distribution_table_unguarded(stats) ==
    LET total_prs == stats.total_prs
        Row(label, count) ==
            IF total_prs = 0 THEN Raise("ZeroDivisionError")
            ELSE Return([category |-> label, count |-> count,
                         percentage |-> Format1f(Percentage(count, total_prs))])
        table == <<Row(Ideal, stats.ideal_count), Row(Good, stats.good_count),
                   Row(Large, stats.large_count), Row(TooLarge, stats.too_large_count)>>
    IN IF \E i \in 1..4 : table[i].status = "raise" THEN Raise("ZeroDivisionError")
       ELSE Return([rows |-> [i \in 1..4 |-> table[i].value],
                    recent_avg_lines |-> Format1f(stats.recent_avg_lines),
                    recent_avg_files |-> Format1f(stats.recent_avg_files)])

generate_distribution_table(stats) ==
    LET total_prs == stats.total_prs
        Row(label, count) ==
            IF total_prs = 0 THEN Raise("ZeroDivisionError")
            ELSE Return([category |-> label, count |-> count,
                         percentage |-> Format1f(Percentage(count, total_prs))])
        table == <<Row(Ideal, stats.ideal_count), Row(Good, stats.good_count),
                   Row(Large, stats.large_count), Row(TooLarge, stats.too_large_count)>>
    IN IF total_prs = 0 THEN Return(NoDistribution)
       ELSE IF \E i \in 1..4 : table[i].status = "raise" THEN Raise("ZeroDivisionError")
       ELSE Return([rows |-> [i \in 1..4 |-> table[i].value],
                    recent_avg_lines |-> Format1f(stats.recent_avg_lines),
                    recent_avg_files |-> Format1f(stats.recent_avg_files)])

\* a section of the report: its heading and the lines under it; the empty
\* string is the section with no heading and no line
Section(heading, rows) == [heading |-> heading, rows |-> rows]
EmptyText == Section("", <<>>)

\* the first exception among the outcomes of a loop, in the order of the loop
FirstRaise(outcomes) ==
    outcomes[CHOOSE i \in 1..Len(outcomes) :
                 /\ outcomes[i].status = "raise"
                 /\ \A j \in 1..(i - 1) : outcomes[j].status = "return"]

\* Timestamp.strftime("%Y-%m-%d"), the text to_datetime read the day from
strftime(day) ==
    CASE day = 15 -> "2024-01-15"
      [] day = 16 -> "2024-01-16"

TitleLimit == 50
TitleKept == 47
LargePrMinLines == 1500
LargePrCount == 10

TruncatedTitle_keeps_limit(title) ==
    IF title = NoText THEN Raise("TypeError")
    ELSE IF Len(title) > TitleLimit
         THEN Return(SubSeq(title, 1, TitleLimit) \o "...")
         ELSE Return(title)

\* pr["title"][:47] + "..." if len(pr["title"]) > 50 else pr["title"];
\* len() of a missing title, a float, raises TypeError
TruncatedTitle(title) ==
    IF title = NoText THEN Raise("TypeError")
    ELSE IF Len(title) > TitleLimit
         THEN Return(SubSeq(title, 1, TitleKept) \o "...")
         ELSE Return(title)

\* one pass of the loop over the large PRs: the line of the table for pr
LargePrLine(d, pr) ==
    IF "title" \notin d.columns THEN Raise("KeyError")
    ELSE LET title == TruncatedTitle(pr.title) IN
         IF title.status = "raise" THEN title
         ELSE IF "url" \notin d.columns \/ "author" \notin d.columns
              THEN Raise("KeyError")
              ELSE Return([pr_number |-> pr.pr_number, url |-> pr.url,
                           title |-> title.value, author |-> pr.author,
                           total_lines |-> pr.total_lines,
                           date_str |-> IF pr.date # NaT THEN strftime(pr.date)
                                        ELSE "N/A"])


generate_large_prs_section(d) ==
    IF ~is_loaded(d) THEN Return(EmptyText)
    ELSE LET large_prs == get_large_prs(d, LargePrMinLines, LargePrCount) IN
         IF large_prs.status = "raise" THEN large_prs
         ELSE IF large_prs.value = <<>> THEN Return(EmptyText)
         ELSE LET lines == [i \in 1..Len(large_prs.value) |->
                               LargePrLine(d, large_prs.value[i])]
              IN IF \E i \in 1..Len(lines) : lines[i].status = "raise"
                 THEN FirstRaise(lines)
                 ELSE Return(Section("Recent Large PRs (>1500 lines)",
                                     [i \in 1..Len(lines) |-> lines[i].value]))

\* comparisons of floats: false when a side is NaN
FloatGt(a, b) == ~IsNaNFloat(a) /\ ~IsNaNFloat(b) /\ a.num * b.den > b.num * a.den
FloatGe(a, b) == ~IsNaNFloat(a) /\ ~IsNaNFloat(b) /\ a.num * b.den >= b.num * a.den
\* the float x multiplied by the decimal n/d
Times(x, n, d) == Frac(x.num * n, x.den * d)

\* f"{x:.0f}": the integer printed, or NaN for "nan"
Format0f(f) ==
    IF IsNaNFloat(f) THEN NaN
    ELSE LET q == f.num \div f.den
             r == f.num % f.den
         IN IF 2 * r > f.den THEN q + 1
            ELSE IF 2 * r < f.den THEN q
            ELSE IF q % 2 = 0 THEN q ELSE q + 1

\* one message of a section: its bold text and the numbers printed in it
Message(text, args) == [text |-> text, args |-> args]


SizingInsight_strict(ideal_pct) ==
    IF FloatGt(ideal_pct, Frac(60, 1)) THEN Message("Excellent PR sizing", <<>>)
    ELSE IF FloatGt(ideal_pct, Frac(40, 1)) THEN Message("Good PR sizing", <<>>)
    ELSE Message("PR sizing needs improvement", <<>>)

\* if ideal_pct >= 60 ... elif ideal_pct >= 40 ... else ...
SizingInsight(ideal_pct) ==
    IF FloatGe(ideal_pct, Frac(60, 1)) THEN Message("Excellent PR sizing", <<>>)
    ELSE IF FloatGe(ideal_pct, Frac(40, 1)) THEN Message("Good PR sizing", <<>>)
    ELSE Message("PR sizing needs improvement", <<>>)

LargeInsight_inclusive(too_large_pct) ==
    IF FloatGe(too_large_pct, Frac(10, 1))
    THEN Message("Too many large PRs", <<Format1f(too_large_pct)>>)
    ELSE IF FloatGe(too_large_pct, Frac(5, 1))
         THEN Message("Some large PRs", <<Format1f(too_large_pct)>>)
         ELSE Message("Good size control", <<>>)

\* if too_large_pct > 10 ... elif too_large_pct > 5 ... else ...
LargeInsight(too_large_pct) ==
    IF FloatGt(too_large_pct, Frac(10, 1))
    THEN Message("Too many large PRs", <<Format1f(too_large_pct)>>)
    ELSE IF FloatGt(too_large_pct, Frac(5, 1))
         THEN Message("Some large PRs", <<Format1f(too_large_pct)>>)
         ELSE Message("Good size control", <<>>)

RecencyInsight_inclusive(recent_avg, overall_avg) ==
    LET shown == <<Format0f(recent_avg), Format0f(overall_avg)>> IN
    IF FloatGe(recent_avg, Times(overall_avg, 12, 10)) THEN Message("Recent PRs are getting larger", shown)
    ELSE IF FloatGe(Times(overall_avg, 8, 10), recent_avg)
         THEN Message("Recent PRs are getting smaller", shown)
         ELSE Message("Consistent PR sizing", shown)

\* if recent_avg > overall_avg * 1.2 ... elif recent_avg < overall_avg * 0.8
\* ... else ...
RecencyInsight(recent_avg, overall_avg) ==
    LET shown == <<Format0f(recent_avg), Format0f(overall_avg)>> IN
    IF FloatGt(recent_avg, Times(overall_avg, 12, 10)) THEN Message("Recent PRs are getting larger", shown)
    ELSE IF FloatGt(Times(overall_avg, 8, 10), recent_avg)
         THEN Message("Recent PRs are getting smaller", shown)
         ELSE Message("Consistent PR sizing", shown)


generate_insights_section_ignores_total(d, stats) ==
    IF ~is_loaded(d) THEN Return(EmptyText)
    ELSE LET total_prs == stats.total_prs
             ideal_pct == Percentage(stats.ideal_count, total_prs)
             too_large_pct == Percentage(stats.too_large_count, total_prs)
         IN Return(Section("Key Insights",
                           <<SizingInsight(ideal_pct), LargeInsight(too_large_pct),
                             RecencyInsight(stats.recent_avg_lines, stats.avg_lines)>>))

generate_insights_section(d, stats) ==
    IF ~is_loaded(d) \/ stats.total_prs = 0 THEN Return(EmptyText)
    ELSE LET total_prs == stats.total_prs
             ideal_pct == Percentage(stats.ideal_count, total_prs)
             too_large_pct == Percentage(stats.too_large_count, total_prs)
         IN Return(Section("Key Insights",
                           <<SizingInsight(ideal_pct), LargeInsight(too_large_pct),
                             RecencyInsight(stats.recent_avg_lines, stats.avg_lines)>>))


\* a block of recommendations, named by its first item, or no line
Block(present, text) == IF present THEN <<Message(text, <<>>)>> ELSE <<>>

generate_recommendations_section_large_above_ten(d, stats) ==
    IF ~is_loaded(d) \/ stats.total_prs = 0 THEN Return(EmptyText)
    ELSE LET total_prs == stats.total_prs
             ideal_pct == Percentage(stats.ideal_count, total_prs)
             too_large_pct == Percentage(stats.too_large_count, total_prs)
         IN Return(Section("Recommendations",
                Block(FloatGt(Frac(50, 1), ideal_pct), "Focus on smaller PRs")
                \o Block(FloatGt(too_large_pct, Frac(10, 1)), "Review large PR process")
                \o Block(FloatGt(stats.recent_avg_lines, Frac(1000, 1)), "Recent trend concern")
                \o Block(TRUE, "General Best Practices")))

generate_recommendations_section_inclusive(d, stats) ==
    IF ~is_loaded(d) \/ stats.total_prs = 0 THEN Return(EmptyText)
    ELSE LET total_prs == stats.total_prs
             ideal_pct == Percentage(stats.ideal_count, total_prs)
             too_large_pct == Percentage(stats.too_large_count, total_prs)
         IN Return(Section("Recommendations",
                Block(~FloatGt(ideal_pct, Frac(50, 1)), "Focus on smaller PRs")
                \o Block(FloatGe(too_large_pct, Frac(5, 1)), "Review large PR process")
                \o Block(FloatGe(stats.recent_avg_lines, Frac(1000, 1)), "Recent trend concern")
                \o Block(TRUE, "General Best Practices")))

generate_recommendations_section(d, stats) ==
    IF ~is_loaded(d) \/ stats.total_prs = 0 THEN Return(EmptyText)
    ELSE LET total_prs == stats.total_prs
             ideal_pct == Percentage(stats.ideal_count, total_prs)
             too_large_pct == Percentage(stats.too_large_count, total_prs)
         IN Return(Section("Recommendations",
                Block(FloatGt(Frac(50, 1), ideal_pct), "Focus on smaller PRs")
                \o Block(FloatGt(too_large_pct, Frac(5, 1)), "Review large PR process")
                \o Block(FloatGt(stats.recent_avg_lines, Frac(1000, 1)), "Recent trend concern")
                \o Block(TRUE, "General Best Practices")))

\* the summary section; now is what datetime.now() reads
generate_summary_section(stats, now) ==
    Return(Section("PR Size Trend Report",
                   <<Message("Generated on", <<now>>),
                     Message("Total PRs analyzed", <<stats.total_prs>>),
                     Message("Average lines changed per PR", <<Format1f(stats.avg_lines)>>),
                     Message("Average files changed per PR", <<Format1f(stats.avg_files)>>)>>))

TopContributorCount == 10

\* the set of outcomes generate_contributors_section can have, one for each
\* order get_top_contributors can return
generate_contributors_section(d) ==
    IF ~is_loaded(d) THEN {Return(EmptyText)}
    ELSE {IF top_contributors.status = "raise" THEN top_contributors
          ELSE IF top_contributors.value = <<>> THEN Return(EmptyText)
          ELSE Return(Section("Top Contributors (By PR Count)",
                 [i \in 1..Len(top_contributors.value) |->
                    LET author == top_contributors.value[i][1]
                        author_prs == Filter(d.rows, EqMask(Column(d.rows, "author"), author))
                    IN [author |-> author, count |-> top_contributors.value[i][2],
                        avg_size |-> Format1f(mean(Column(author_prs, "total_lines")))]])) :
            top_contributors \in get_top_contributors(d, TopContributorCount)}

\* report = s1; report += s2; ...: the sections in the order they are
\* appended, or the first exception one of them raises
Concatenation(sections) ==
    IF \E i \in 1..Len(sections) : sections[i].status = "raise"
    THEN FirstRaise(sections)
    ELSE Return([i \in 1..Len(sections) |-> sections[i].value])

NoDataReport(now) ==
    Return(<<Section("PR Size Trend Report", <<Message("Generated on", <<now>>),
                                    Message("No data available.", <<>>)>>)>>)

\* the set of outcomes create_full_report can have
create_full_report(d, now) ==
    IF ~is_loaded(d) THEN {NoDataReport(now)}
    ELSE LET stats == get_statistics_summary(d) IN
         IF stats.status = "raise" THEN {stats}
         ELSE {Concatenation(<<generate_summary_section(stats.value, now),
                               generate_distribution_table(stats.value),
                               contributors,
                               generate_large_prs_section(d),
                               generate_insights_section(d, stats.value),
                               generate_recommendations_section(d, stats.value)>>) :
                 contributors \in generate_contributors_section(d)}

(***************************************************************************)
(* The chart generator                                                     *)
(***************************************************************************)
\* what the plotting library does while one chart is drawn: nothing, or it
\* raises fault.error while the chart fault.chart is drawn
NoFault == [chart |-> "none", error |-> "none"]
Drawn(chart, output_file, fault) ==
    IF fault.chart = chart THEN [result |-> Raise(fault.error), files |-> {}]
    ELSE [result |-> Return(None), files |-> {output_file}]

WithSizeCategory_drops_missing(d) ==
    LET kept == Filter(d.rows, [i \in 1..Len(d.rows) |-> d.rows[i].total_lines # NaN]) IN
    [columns |-> d.columns \cup {"size_category"},
     rows |-> [i \in 1..Len(kept) |->
                 [f \in DOMAIN kept[i] \cup {"size_category"} |->
                    IF f = "size_category" THEN categorize_pr_size(kept[i].total_lines)
                    ELSE kept[i][f]]]]

\* df["size_category"] = df["total_lines"].apply(categorize_pr_size)
WithSizeCategory(d) ==
    [columns |-> d.columns \cup {"size_category"},
     rows |-> [i \in 1..Len(d.rows) |->
                 [f \in DOMAIN d.rows[i] \cup {"size_category"} |->
                    IF f = "size_category" THEN categorize_pr_size(d.rows[i].total_lines)
                    ELSE d.rows[i][f]]]]

\* the pie chart gives the table it leaves, its outcome and the files it has
\* written; the other charts leave the table as it is
create_size_distribution_chart(d, output_file, fault) ==
    IF ~is_loaded(d) THEN [df |-> d, result |-> Return(<<>>), files |-> {}]
    ELSE LET tagged == WithSizeCategory(d)
             drawn == Drawn("pie", output_file, fault)
             categories == {tagged.rows[i].size_category : i \in 1..Len(tagged.rows)}
             category_counts ==
                 [c \in categories |->
                    Cardinality({i \in 1..Len(tagged.rows) : tagged.rows[i].size_category = c})]
         IN [df |-> tagged,
             result |-> IF drawn.result.status = "raise" THEN drawn.result
                        ELSE Return(category_counts),
             files |-> drawn.files]

create_trend_line_chart(d, output_file, fault) ==
    IF ~is_loaded(d) THEN [result |-> Return(None), files |-> {}]
    ELSE LET daily_avg == get_daily_averages(d) IN
         IF daily_avg.status = "raise" THEN [result |-> daily_avg, files |-> {}]
         ELSE IF daily_avg.value = <<>> THEN [result |-> Return(None), files |-> {}]
         ELSE Drawn("trend", output_file, fault)

\* the order of the contributors changes neither the outcome nor the file
create_contributor_chart(d, output_file, fault) ==
    IF ~is_loaded(d) THEN [result |-> Return(None), files |-> {}]
    ELSE LET top_contributors == get_top_contributors(d, TopContributorCount) IN
         IF \E top \in top_contributors : top.status = "raise"
         THEN [result |-> CHOOSE top \in top_contributors : top.status = "raise",
               files |-> {}]
         ELSE IF \A top \in top_contributors : top.value = <<>>
              THEN [result |-> Return(None), files |-> {}]
              ELSE Drawn("contributor", output_file, fault)

create_size_histogram(d, output_file, fault) ==
    IF ~is_loaded(d) THEN [result |-> Return(None), files |-> {}]
    ELSE Drawn("histogram", output_file, fault)

CaughtByCharts == {"ImportError", "RuntimeError", "ValueError"}

\* generate_all_charts on a store holding d: the table it leaves, its
\* outcome, the files written and the lines printed
generate_all_charts(d, output_dir, fault) ==
    IF ~is_loaded(d)
    THEN [df |-> d, result |-> Return(<<>>), files |-> {}, stdout |-> <<>>]
    ELSE LET pie_chart_file == output_dir \o "/pr_size_distribution.png"
             trend_chart_file == output_dir \o "/pr_size_trend.png"
             contributor_chart_file == output_dir \o "/top_contributors.png"
             histogram_file == output_dir \o "/pr_size_histogram.png"
             pie == create_size_distribution_chart(d, pie_chart_file, fault)
             charts == <<[result |-> pie.result, files |-> pie.files],
                         create_trend_line_chart(pie.df, trend_chart_file, fault),
                         create_contributor_chart(pie.df, contributor_chart_file, fault),
                         create_size_histogram(pie.df, histogram_file, fault)>>
             created == <<"Created size distribution chart", "Created trend line chart",
                          "Created contributor chart", "Created size histogram">>
             \* the charts made before the first exception, all four if none
             done == IF \E i \in 1..4 : charts[i].result.status = "raise"
                     THEN (CHOOSE i \in 1..4 :
                              /\ charts[i].result.status = "raise"
                              /\ \A j \in 1..(i - 1) : charts[j].result.status = "return") - 1
                     ELSE 4
             files == UNION {charts[i].files : i \in 1..done}
         IN IF done = 4
            THEN [df |-> pie.df,
                  result |-> Return([pie_chart |-> pie_chart_file,
                                     category_counts |-> pie.result.value,
                                     trend_chart |-> trend_chart_file,
                                     contributor_chart |-> contributor_chart_file,
                                     histogram |-> histogram_file]),
                  files |-> files, stdout |-> created]
            ELSE IF charts[done + 1].result.value \in CaughtByCharts
                 THEN [df |-> pie.df, result |-> Return(<<>>), files |-> files,
                       stdout |-> SubSeq(created, 1, done) \o <<"Error generating charts">>]
                 ELSE [df |-> pie.df, result |-> charts[done + 1].result,
                       files |-> files, stdout |-> SubSeq(created, 1, done)]

(***************************************************************************)
(* The command line: visualize_pr_trends.py                                *)
(***************************************************************************)
output_dir == ".github/reports"
viz_dir == ".github/reports/visualizations"
report_file == ".github/reports/pr_size_trend.md"
CaughtByMain == {"ImportError", "RuntimeError", "ValueError"}

\* a run of main so far: the lines main and the chart generator have printed
\* (load_data prints its own before them), the directories and files made
\* and the steps taken
Run(stdout, dirs, files, steps) ==
    [stdout |-> stdout, dirs |-> dirs, files |-> files, steps |-> steps]

\* the end of a run: its exit code, and the exception that ended it if one
\* was not caught (the interpreter then prints the traceback and exits with 1)
Ended(exit_code, run, uncaught) ==
    [status |-> "exit",
     value |-> [exit_code |-> exit_code, stdout |-> run.stdout, dirs |-> run.dirs,
                files |-> run.files, steps |-> run.steps, uncaught |-> uncaught]]

\* an exception inside the try statement of main
Failed(e, run) ==
    IF e \in CaughtByMain
    THEN Ended(1, [run EXCEPT !.stdout = @ \o <<"Error generating visualizations">>], "none")
    ELSE Ended(1, run, e)

WrongArgumentCount_missing_only(argv) == Len(argv) < 2

\* if len(sys.argv) != 2
WrongArgumentCount(argv) == Len(argv) # 2

Loading_before_makedirs == Run(<<>>, {output_dir, viz_dir}, {}, <<"load_data", "makedirs">>)

Loading == Run(<<>>, {output_dir, viz_dir}, {}, <<"makedirs", "load_data">>)

NoDataEnd_exit_one ==
    Ended(1, [Loading EXCEPT !.stdout = <<"No data available for visualization.">>], "none")

\* if not metrics.load_data(): print(...); return
NoDataEnd ==
    Ended(0, [Loading EXCEPT !.stdout = <<"No data available for visualization.">>], "none")

(***************************************************************************)
(* Inputs                                                                  *)
(***************************************************************************)
\* cells of the rows of a source given to load_data in the life of a store
SourceCells ==
    [date : {"2024-01-15", BlankDate, BadDate}, total_lines : {500, 2001},
     changed_files : {2}, author : {"alice"},
     title : {"Add feature"}, url : {"https://example.test/pull"}]

Sources ==
    {MissingFile, EmptyFile, MalformedFile, UnreadableFile}
    \cup {Csv(AllColumns, c) : c \in SeqsUpTo(SourceCells, MaxSourceRows)}
    \cup {Csv(AllColumns \ {col}, c) :
            col \in required_columns, c \in SeqsUpTo(SourceCells, 1)}

\* cells of the rows of the tables the queries are applied to: one family
\* varies the line counts, one the dates, one the file counts, one the authors
LinesCells ==
    [date : {"2024-01-15"}, total_lines : {500, 501, 1500, 1501, 2000, 2001, NaN},
     changed_files : {2}, author : {"alice"},
     title : {"Add feature"}, url : {"https://example.test/pull"}]
DateCells ==
    [date : {"2024-01-15", "2024-01-16", BlankDate}, total_lines : {500, 2001},
     changed_files : {2}, author : {"alice"},
     title : {"Add feature"}, url : {"https://example.test/pull"}]
FilesCells ==
    [date : {"2024-01-15"}, total_lines : {500}, changed_files : {1, 2, NaN},
     author : {"alice"},
     title : {"Add feature"}, url : {"https://example.test/pull"}]
AuthorCells ==
    [date : {"2024-01-15"}, total_lines : {500}, changed_files : {2},
     author : {"alice", "bob", "carol", NoText},
     title : {"Add feature"}, url : {"https://example.test/pull"}]

QuerySources ==
    {Csv(AllColumns, c) :
        c \in SeqsUpTo(LinesCells, MaxRows) \cup SeqsUpTo(DateCells, MaxRows)
              \cup SeqsUpTo(FilesCells, MaxRows) \cup SeqsUpTo(AuthorCells, MaxRows)}

\* titles of 1, 47, 50, 51, ..., MaxTitleLen characters
LongTitle == "Refactor the metrics pipeline and rewrite every chart renderer"
Title(n) == SubSeq(LongTitle, 1, n)
Titles == {Title(n) : n \in {1, TitleKept, TitleLimit} \cup (TitleLimit + 1)..MaxTitleLen}

\* cells of the rows of the tables the report sections are applied to: one
\* family varies the titles
TitleCells ==
    [date : {"2024-01-15"}, total_lines : {500, 2001}, changed_files : {2},
     author : {"alice"}, title : Titles \cup {NoText},
     url : {"https://example.test/pull"}]

\* another the optional cells, each present or missing
OptionalCells ==
    [date : {"2024-01-15", BlankDate}, total_lines : {2001}, changed_files : {2, NaN},
     author : {"alice", NoText}, title : {"Add feature"},
     url : {"https://example.test/pull", NoText}]

\* the sources of these tables: with every column, with the required columns
\* and all but one of the optional ones, with the required columns alone
SectionSources ==
    {Csv(AllColumns, c) :
        c \in SeqsUpTo(TitleCells, MaxSectionRows) \cup SeqsUpTo(OptionalCells, MaxSectionRows)}
    \cup {Csv(cols, c) :
            cols \in {AllColumns \ {col} : col \in AllColumns \ required_columns}
                     \cup {required_columns},
            c \in SeqsUpTo(TitleCells, 1)}

\* what datetime.now() can read
Clock == {"2024-02-01 10:00:00 UTC", "2024-02-02 10:00:00 UTC"}

\* stats dictionaries handed to the insights and the recommendations: the
\* counts of ideal and too large PRs vary over every split of the total, the
\* averages over the values around 0.8, 1.0 and 1.2 times 1000
LadderAverages == {Frac(799, 1), Frac(800, 1), Frac(1000, 1), Frac(1001, 1),
                   Frac(1200, 1), Frac(1201, 1), FloatNaN}
LadderStats ==
    {st \in [total_prs : {0, 3, MaxLadderTotal}, avg_lines : {Frac(1000, 1), FloatNaN},
             avg_files : {Frac(5, 2)}, ideal_count : 0..MaxLadderTotal,
             good_count : {0}, large_count : {0}, too_large_count : 0..MaxLadderTotal,
             recent_avg_lines : LadderAverages, recent_avg_files : {Frac(5, 2)}] :
        st.ideal_count + st.too_large_count <= st.total_prs}

\* the stores the insights and the recommendations are asked of: a new one,
\* one with a header-only table, one with a record
InsightSources ==
    {Csv(AllColumns, c) :
        c \in SeqsUpTo({[date |-> "2024-01-15", total_lines |-> 500, changed_files |-> 2,
                         author |-> "alice", title |-> "Add feature",
                         url |-> "https://example.test/pull"]}, 1)}

\* what main is run with: no argument, one, or two; the file its argument
\* names; the fault of the plotting library
Argvs ==
    {<<"visualize_pr_trends.py">>, <<"visualize_pr_trends.py", "metrics.csv">>,
     <<"visualize_pr_trends.py", "metrics.csv", "more">>}
MainCells ==
    [date : {"2024-01-15", BlankDate, BadDate}, total_lines : {2001}, changed_files : {2},
     author : {"alice", NoText}, title : {"Add feature", NoText},
     url : {"https://example.test/pull"}]
MainSources ==
    {MissingFile, EmptyFile, MalformedFile, UnreadableFile}
    \cup {Csv(AllColumns, c) : c \in SeqsUpTo(MainCells, MaxSourceRows)}
    \cup {Csv(cols, c) :
            cols \in {AllColumns \ {col} : col \in required_columns} \cup {required_columns},
            c \in SeqsUpTo(MainCells, 1)}
Faults ==
    {NoFault}
    \cup [chart : {"pie", "trend", "contributor", "histogram"},
          error : CaughtByCharts \cup {"OSError"}]

\* cells of the rows of the tables the charts are drawn from: the line counts
\* and the dates vary
ChartCells ==
    {c \in [date : {"2024-01-15", BlankDate}, total_lines : {500, 2001, NaN},
            changed_files : {2}, author : {"alice"},
            title : {"Add feature"}, url : {"https://example.test/pull"}] :
        c.date = BlankDate => c.total_lines = 2001}
ChartSources ==
    {Csv(AllColumns, c) : c \in SeqsUpTo(ChartCells, MaxSourceRows)}
    \cup {Csv(cols, c) :
            cols \in {AllColumns \ {"author"}, required_columns},
            c \in SeqsUpTo(ChartCells, 1)}

Windows == 0..MaxWindow
Limits == 0..MaxLimit
MinLines == {500, 1500, 2000}

\* stats dictionaries handed to a report section
StatsInputs ==
    {st \in [total_prs : 0..MaxStat, avg_lines : {Frac(1000, 1)}, avg_files : {Frac(5, 2)},
             ideal_count : 0..MaxStat, good_count : 0..MaxStat,
             large_count : 0..MaxStat, too_large_count : 0..MaxStat,
             recent_avg_lines : {Frac(1000, 1), Float0}, recent_avg_files : {Frac(5, 2)}] :
        st.ideal_count + st.good_count + st.large_count + st.too_large_count
            <= st.total_prs}
    \cup {ZeroSummary}

(***************************************************************************)
(* Operations                                                              *)
(***************************************************************************)
New == [op |-> "__init__"]

Init ==
    /\ df = None
    /\ loads = 0
    /\ call = New
    /\ result = Return(None)

LoadData ==
    /\ loads < MaxLoads
    /\ \E src \in Sources :
         LET out == load_data(df, src) IN
         /\ df' = out.df
         /\ result' = out.result
         /\ call' = [op |-> "load_data", source |-> src]
    /\ loads' = loads + 1

CategorizePrSize ==
    /\ \E total_lines \in 0..MaxTotalLines :
         /\ call' = [op |-> "categorize_pr_size", total_lines |-> total_lines]
         /\ result' = Return(categorize_pr_size(total_lines))
    /\ UNCHANGED <<df, loads>>

GetSizeDistribution ==
    /\ call' = [op |-> "get_size_distribution"]
    /\ result' = get_size_distribution(df)
    /\ UNCHANGED <<df, loads>>

GetAverages ==
    /\ call' = [op |-> "get_averages"]
    /\ result' = get_averages(df)
    /\ UNCHANGED <<df, loads>>

GetRecentTrends ==
    /\ \E count \in Windows :
         /\ call' = [op |-> "get_recent_trends", count |-> count]
         /\ result' = get_recent_trends(df, count)
    /\ UNCHANGED <<df, loads>>

GetTopContributors ==
    /\ \E count \in Limits :
         /\ call' = [op |-> "get_top_contributors", count |-> count]
         /\ result' \in get_top_contributors(df, count)
    /\ UNCHANGED <<df, loads>>

GetLargePrs ==
    /\ \E min_lines \in MinLines, count \in Limits :
         /\ call' = [op |-> "get_large_prs", min_lines |-> min_lines, count |-> count]
         /\ result' = get_large_prs(df, min_lines, count)
    /\ UNCHANGED <<df, loads>>

GetDailyAverages ==
    /\ call' = [op |-> "get_daily_averages"]
    /\ result' = get_daily_averages(df)
    /\ UNCHANGED <<df, loads>>

GetStatisticsSummary ==
    /\ call' = [op |-> "get_statistics_summary"]
    /\ result' = get_statistics_summary(df)
    /\ UNCHANGED <<df, loads>>

GenerateDistributionTable ==
    /\ \E stats \in StatsInputs :
         /\ call' = [op |-> "generate_distribution_table", stats |-> stats]
         /\ result' = generate_distribution_table(stats)
    /\ UNCHANGED <<df, loads>>

GenerateLargePrsSection ==
    /\ call' = [op |-> "generate_large_prs_section"]
    /\ result' = generate_large_prs_section(df)
    /\ UNCHANGED <<df, loads>>

GenerateContributorsSection ==
    /\ call' = [op |-> "generate_contributors_section"]
    /\ result' \in generate_contributors_section(df)
    /\ UNCHANGED <<df, loads>>

CreateFullReport ==
    /\ \E now \in Clock :
         /\ call' = [op |-> "create_full_report", now |-> now]
         /\ result' \in create_full_report(df, now)
    /\ UNCHANGED <<df, loads>>

GenerateInsightsSection ==
    /\ \E stats \in LadderStats :
         /\ call' = [op |-> "generate_insights_section", stats |-> stats]
         /\ result' = generate_insights_section(df, stats)
    /\ UNCHANGED <<df, loads>>

GenerateRecommendationsSection ==
    /\ \E stats \in LadderStats :
         /\ call' = [op |-> "generate_recommendations_section", stats |-> stats]
         /\ result' = generate_recommendations_section(df, stats)
    /\ UNCHANGED <<df, loads>>

\* generate_all_charts on the store, into the directory main gives it
GenerateAllCharts ==
    /\ \E fault \in Faults :
         \E charts \in {generate_all_charts(df, viz_dir, fault)} :
           /\ df' = charts.df
           /\ call' = [op |-> "generate_all_charts", fault |-> fault]
           /\ result' = charts.result
    /\ UNCHANGED loads

\* main up to the load: the arguments, the two directories, load_data on a
\* new store; src is the file argv[1] names
MainStart ==
    /\ call = New
    /\ \E argv \in Argvs, src \in MainSources, fault \in Faults, now \in Clock :
         \E loaded \in {load_data(None, src)}, pc \in {"generate_all_charts", "exit"} :
           /\ call' = [op |-> "main", pc |-> pc, argv |-> argv, source |-> src,
                       fault |-> fault, now |-> now]
           /\ IF WrongArgumentCount(argv)
              THEN /\ pc = "exit"
                   /\ result' =
                        Ended(1, Run(<<"Usage: python3 visualize_pr_trends.py <path_to_metrics_csv>">>,
                                     {}, {}, <<>>), "none")
                   /\ df' = df
              ELSE /\ df' = loaded.df
                   /\ IF loaded.result.status = "raise"
                      THEN pc = "exit" /\ result' = Ended(1, Loading, loaded.result.value)
                      ELSE IF ~loaded.result.value
                      THEN pc = "exit" /\ result' = NoDataEnd
                      ELSE /\ pc = "generate_all_charts"
                           /\ result' = [status |-> "running", value |-> Loading]
    /\ UNCHANGED loads

\* main from the try statement to the test of chart_info
MainCharts ==
    /\ call.op = "main"
    /\ call.pc = "generate_all_charts"
    /\ \E charts \in {generate_all_charts(df, viz_dir, call.fault)},
          pc \in {"create_full_report", "exit"} :
         LET run == [result.value EXCEPT !.stdout = @ \o charts.stdout,
                                         !.files = @ \cup charts.files,
                                         !.steps = Append(@, "generate_all_charts")]
         IN /\ df' = charts.df
            /\ call' = [call EXCEPT !.pc = pc]
            /\ IF charts.result.status = "raise"
               THEN pc = "exit" /\ result' = Failed(charts.result.value, run)
               ELSE IF charts.result.value = <<>>
               THEN /\ pc = "exit"
                    /\ result' = Ended(0, [run EXCEPT !.stdout =
                                                  @ \o <<"Error generating charts.">>], "none")
               ELSE pc = "create_full_report" /\ result' = [status |-> "running", value |-> run]
    /\ UNCHANGED loads

\* main from create_full_report to its end
MainReport ==
    /\ call.op = "main"
    /\ call.pc = "create_full_report"
    /\ \E report_content \in create_full_report(df, call.now) :
         LET run == [result.value EXCEPT !.steps = Append(@, "create_full_report")] IN
         result' = IF report_content.status = "raise"
                   THEN Failed(report_content.value, run)
                   ELSE Ended(0, [run EXCEPT !.stdout = @ \o <<"Created statistics report",
                                                   "Visualization generation complete!">>,
                                             !.files = @ \cup {report_file},
                                             !.steps = Append(@, "write")], "none")
    /\ call' = [call EXCEPT !.pc = "exit"]
    /\ UNCHANGED <<df, loads>>

\* one run of the script, from the command line to the exit of the process
Main == MainStart \/ MainCharts \/ MainReport

Query ==
    \/ GetSizeDistribution
    \/ GetAverages
    \/ GetRecentTrends
    \/ GetTopContributors
    \/ GetLargePrs
    \/ GetDailyAverages
    \/ GetStatisticsSummary

\* the life of one store: loads and queries in any order
Next == LoadData \/ Query
Spec == Init /\ [][Next]_vars

\* categorize_pr_size applied to every line count of the bound
SpecCategorize == Init /\ [][CategorizePrSize]_vars

\* the queries applied to every table of the bound, as load_data leaves it
InitQuery ==
    /\ df \in {None} \cup {load_data(None, src).df : src \in QuerySources}
    /\ loads = 0
    /\ call = New
    /\ result = Return(None)
QueryOnce == call = New /\ Query
SpecQuery == InitQuery /\ [][QueryOnce]_vars

\* a report section applied to every stats dictionary of the bound
SpecReport == Init /\ [][GenerateDistributionTable]_vars

\* the queries and the report sections applied to every table of the bound,
\* as load_data leaves it
InitSections ==
    /\ df \in {None} \cup {load_data(None, src).df : src \in SectionSources}
    /\ loads = 0
    /\ call = New
    /\ result = Return(None)
Sections ==
    \/ Query
    \/ GenerateContributorsSection
    \/ GenerateLargePrsSection
    \/ CreateFullReport
SectionOnce == call = New /\ Sections
SpecSections == InitSections /\ [][SectionOnce]_vars

\* the insights and the recommendations applied to every stats dictionary of
\* the bound, on a store that is loaded or not
InitInsights ==
    /\ df \in {None} \cup {load_data(None, src).df : src \in InsightSources}
    /\ loads = 0
    /\ call = New
    /\ result = Return(None)
InsightOnce ==
    call = New /\ (GenerateInsightsSection \/ GenerateRecommendationsSection)
SpecInsights == InitInsights /\ [][InsightOnce]_vars

\* the charts, the queries and the report sections in any order on every
\* table of the bound, as load_data leaves it
InitCharts ==
    /\ df \in {None} \cup {load_data(None, src).df : src \in ChartSources}
    /\ loads = 0
    /\ call = New
    /\ result = Return(None)
SpecCharts == InitCharts /\ [][GenerateAllCharts \/ Sections]_vars

\* the script run once on every command line, file and plotting fault of the
\* bound
SpecMain == Init /\ [][Main]_vars

(***************************************************************************)
(* C1: categorize_pr_size returns, for every line count 0, 1, 2, ..., Ideal *)
(* when it is at most 500, Good when it is 501..1500, Large when it is     *)
(* 1501..2000 and Too Large when it is above 2000.                         *)
(***************************************************************************)
C1_CategorizeBoundaries ==
    call.op = "categorize_pr_size" =>
        LET t == call.total_lines
            c == result.value
        IN /\ result.status = "return"
           /\ c \in {Ideal, Good, Large, TooLarge}
           /\ (c = Ideal) = (t <= 500)
           /\ (c = Good) = (t >= 501 /\ t <= 1500)
           /\ (c = Large) = (t >= 1501 /\ t <= 2000)
           /\ (c = TooLarge) = (t > 2000)

C1_Witness ==
    /\ call.op = "categorize_pr_size"
    /\ call.total_lines = 1501
    /\ result = Return(Large)

(***************************************************************************)
(* C2: on a loaded table the four counts of get_size_distribution count    *)
(* each record at most once and add up to the number of records.           *)
(***************************************************************************)
C2_DistributionSumsToTotal ==
    (call.op = "get_size_distribution" /\ is_loaded(df)) =>
        /\ result.status = "return"
        /\ result.value[1] + result.value[2] + result.value[3] + result.value[4]
             = Len(df.rows)

(***************************************************************************)
(* C3: whenever load_data returns False, is_loaded is false immediately    *)
(* afterwards (the claim adds that no table remains at all; already        *)
(* is_loaded = false fails).                                               *)
(***************************************************************************)
C3_FailedLoadLeavesNotLoaded ==
    (call.op = "load_data" /\ result.status = "return" /\ result.value = FALSE) =>
        ~is_loaded(df)

(***************************************************************************)
(* C4: a new store is not loaded; after its first load_data it is loaded   *)
(* exactly when load_data returned True and the source had at least one    *)
(* record; a store holding a table of zero records is not loaded and every *)
(* query answers as for no data.                                           *)
(***************************************************************************)
NoDataAnswer(c, r) ==
    CASE c.op = "get_size_distribution" -> r = Return(<<0, 0, 0, 0>>)
      [] c.op = "get_averages" -> r = Return(<<Float0, Float0>>)
      [] c.op = "get_recent_trends" -> r = Return(<<Float0, Float0>>)
      [] c.op = "get_top_contributors" -> r = Return(<<>>)
      [] c.op = "get_large_prs" -> r = Return(<<>>)
      [] c.op = "get_daily_averages" -> r = Return(<<>>)
      [] c.op = "get_statistics_summary" ->
            /\ r.status = "return"
            /\ r.value.total_prs = 0
            /\ r.value.ideal_count + r.value.good_count + r.value.large_count
                 + r.value.too_large_count = 0
      [] OTHER -> TRUE

SummaryKeys ==
    {"total_prs", "avg_lines", "avg_files", "ideal_count", "good_count",
     "large_count", "too_large_count", "recent_avg_lines", "recent_avg_files"}

C5_UnloadedQueriesDegrade ==
    ~is_loaded(df) =>
        /\ call.op = "get_size_distribution" => result = Return(<<0, 0, 0, 0>>)
        /\ call.op \in {"get_averages", "get_recent_trends"} =>
              /\ result.status = "return"
              /\ result.value[1] = Frac(0, 1)
              /\ result.value[2] = Frac(0, 1)
        /\ call.op \in {"get_top_contributors", "get_large_prs", "get_daily_averages"} =>
              /\ result.status = "return"
              /\ Len(result.value) = 0
        /\ call.op = "get_statistics_summary" =>
              /\ result.status = "return"
              /\ DOMAIN result.value = SummaryKeys
              /\ \A k \in {"total_prs", "ideal_count", "good_count", "large_count",
                           "too_large_count"} : result.value[k] = 0
              /\ \A k \in {"avg_lines", "avg_files", "recent_avg_lines",
                           "recent_avg_files"} : result.value[k] = Frac(0, 1)

C5_Witness ==
    /\ loads >= 1
    /\ df = None
    /\ call.op = "get_statistics_summary"
    /\ result.status = "return"
    /\ result.value.total_prs = 0

(***************************************************************************)
(* C6: on a loaded table of n records get_recent_trends(window), window at *)
(* least 1, returns the means of total_lines and of changed_files over the *)
(* last min(window, n) records in table order; all n when n < window.      *)
(***************************************************************************)
LastRecords(rows, k) == [i \in 1..k |-> rows[Len(rows) - k + i]]

C6_RecentTrendsWindow ==
    (call.op = "get_recent_trends" /\ is_loaded(df) /\ call.count >= 1) =>
        LET last == LastRecords(df.rows, Min(call.count, Len(df.rows))) IN
        /\ result.status = "return"
        /\ result.value[1] = mean([i \in 1..Len(last) |-> last[i].total_lines])
        /\ result.value[2] = mean([i \in 1..Len(last) |-> last[i].changed_files])

C6_Witness ==
    /\ call.op = "get_recent_trends"
    /\ is_loaded(df)
    /\ Len(df.rows) = 2
    /\ call.count = 3
    /\ result.status = "return"
    /\ result.value[1] = Frac(500 + 2001, 2)

(***************************************************************************)
(* C7 as claimed: on a loaded table get_top_contributors(limit) returns at *)
(* most limit (author, count) pairs, each count the number of records by   *)
(* that author, in descending order of count, authors of equal count in    *)
(* the order of their first appearance in the table, and no author left    *)
(* out has a strictly higher count than one returned.                      *)
(***************************************************************************)
FirstAppearance(rows, a) ==
    CHOOSE i \in 1..Len(rows) :
        rows[i].author = a /\ \A j \in 1..(i - 1) : rows[j].author # a

TopContributorsRanked(rows, limit, r) ==
    /\ Len(r) <= limit
    /\ Len(r) = Min(limit, Cardinality(AuthorsOf(rows)))
    /\ \A i \in 1..Len(r) :
         /\ r[i][1] \in AuthorsOf(rows)
         /\ r[i][2] = Cardinality({k \in 1..Len(rows) : rows[k].author = r[i][1]})
    /\ \A i, j \in 1..Len(r) : i < j => (r[i][1] # r[j][1] /\ r[i][2] >= r[j][2])
    /\ \A a \in AuthorsOf(rows) :
         (\A i \in 1..Len(r) : r[i][1] # a) =>
             \A i \in 1..Len(r) : CountOf(rows, a) <= r[i][2]

C8_LargePrsLastByPosition ==
    (call.op = "get_large_prs" /\ is_loaded(df)) =>
        LET rows == df.rows
            above == {i \in 1..Len(rows) :
                        rows[i].total_lines # NaN /\ rows[i].total_lines > call.min_lines}
            k == Min(call.count, Cardinality(above))
            kept == {i \in above : Cardinality({j \in above : j > i}) < k}
            r == result.value
        IN /\ result.status = "return"
           /\ Len(r) = k
           /\ \A n \in 1..Len(r) :
                /\ r[n].total_lines # call.min_lines
                /\ \E i \in kept :
                     /\ r[n] = rows[i]
                     /\ Cardinality({j \in kept : j < i}) = n - 1

C8_Witness ==
    /\ call.op = "get_large_prs"
    /\ is_loaded(df)
    /\ call.min_lines = 1500
    /\ call.count = 1
    /\ Len(df.rows) = 3
    /\ df.rows[1].total_lines = 1500
    /\ df.rows[2].total_lines = 2001
    /\ df.rows[3].total_lines = 1501
    /\ result.status = "return"
    /\ Len(result.value) = 1
    /\ result.value[1].pr_number = 103

(***************************************************************************)
(* C9: get_statistics_summary is computed from the table the store holds   *)
(* when it is called: the number of records, the size distribution, the    *)
(* averages and the recent trends over the last 30 records of that table,  *)
(* whatever loads came before.                                             *)
(***************************************************************************)
C9_SummaryOfCurrentTable ==
    (call.op = "get_statistics_summary" /\ is_loaded(df)) =>
        LET st == result.value IN
        /\ result.status = "return"
        /\ st.total_prs = Len(df.rows)
        /\ Return(<<st.ideal_count, st.good_count, st.large_count, st.too_large_count>>)
             = get_size_distribution(df)
        /\ Return(<<st.avg_lines, st.avg_files>>) = get_averages(df)
        /\ Return(<<st.recent_avg_lines, st.recent_avg_files>>)
             = get_recent_trends(df, 30)

C9_Witness ==
    /\ loads = 2
    /\ call.op = "get_statistics_summary"
    /\ is_loaded(df)
    /\ result.status = "return"
    /\ result.value.total_prs = 2
    /\ result.value.too_large_count = 1
    /\ result.value.ideal_count = 1

(***************************************************************************)
(* C10: generate_distribution_table never divides by zero: for total_prs   *)
(* = 0 it returns the fixed no-data sentence, otherwise four rows, Ideal,  *)
(* Good, Large, Too Large, each with its count and count / total_prs * 100 *)
(* to one decimal.                                                         *)
(***************************************************************************)
C10_DistributionTableNoDivisionByZero ==
    call.op = "generate_distribution_table" =>
        LET st == call.stats
            counts == <<st.ideal_count, st.good_count, st.large_count, st.too_large_count>>
            labels == <<Ideal, Good, Large, TooLarge>>
        IN /\ result.status = "return"
           /\ IF st.total_prs = 0
              THEN result.value = "No data available for distribution analysis."
              ELSE /\ Len(result.value.rows) = 4
                   /\ \A i \in 1..4 :
                        LET row == result.value.rows[i] IN
                        /\ row.category = labels[i]
                        /\ row.count = counts[i]
                        \* the tenth nearest to counts[i] * 100 / total_prs
                        /\ 2 * (row.percentage * st.total_prs - counts[i] * 1000)
                             <= st.total_prs
                        /\ 2 * (counts[i] * 1000 - row.percentage * st.total_prs)
                             <= st.total_prs

C10_Witness ==
    /\ call.op = "generate_distribution_table"
    /\ call.stats.total_prs = 3
    /\ call.stats.ideal_count = 1
    /\ result.status = "return"
    /\ result.value.rows[1].percentage = 333

(***************************************************************************)
(* C11: every line of the large-PRs section shows the title of its record  *)
(* unchanged when the title has at most 50 characters, and its first 47    *)
(* characters followed by "..." (50 characters in all) when it has more;   *)
(* no title shown is longer than 50 characters.                            *)
(***************************************************************************)
\* the records the section has a line for, in the order of the lines
LargePrsShown == get_large_prs(df, LargePrMinLines, LargePrCount).value

C11_LongTitlesTruncated ==
    (call.op = "generate_large_prs_section" /\ result.status = "return") =>
        LET shown == result.value.rows IN
        \A i \in 1..Len(shown) :
            LET t == LargePrsShown[i].title IN
            /\ Len(shown[i].title) <= 50
            /\ Len(t) <= 50 => shown[i].title = t
            /\ Len(t) > 50 =>
                 /\ Len(shown[i].title) = 50
                 /\ SubSeq(shown[i].title, 1, 47) = SubSeq(t, 1, 47)
                 /\ SubSeq(shown[i].title, 48, 50) = "..."

C11_Witness ==
    /\ call.op = "generate_large_prs_section"
    /\ result.status = "return"
    /\ \E i, j \in 1..Len(result.value.rows) :
         /\ Len(LargePrsShown[i].title) = 51
         /\ Len(LargePrsShown[j].title) = 50

(***************************************************************************)
(* What the claims C12..C16 expect of the insights and recommendations, in *)
(* integer arithmetic on the counts and the averages of the stats given.   *)
(***************************************************************************)
\* count / total_prs * 100 compared with a threshold
PctGe(count, total_prs, threshold) == count * 100 >= threshold * total_prs
PctGt(count, total_prs, threshold) == count * 100 > threshold * total_prs
\* the float a compared with the float b times n/10, both present
AboveRatio(a, b, n) ==
    ~IsNaNFloat(a) /\ ~IsNaNFloat(b) /\ a.num * b.den * 10 > b.num * n * a.den
BelowRatio(a, b, n) ==
    ~IsNaNFloat(a) /\ ~IsNaNFloat(b) /\ a.num * b.den * 10 < b.num * n * a.den
InsightsAsked ==
    call.op = "generate_insights_section" /\ is_loaded(df) /\ call.stats.total_prs > 0
\* the positions of the messages of one ladder in the section returned
MessagesAmong(texts) ==
    {i \in 1..Len(result.value.rows) : result.value.rows[i].text \in texts}

(***************************************************************************)
(* C12: on a loaded store and stats with total_prs > 0 the insights hold   *)
(* exactly one sizing message: Excellent when the ideal percentage is at   *)
(* least 60, Good when it is at least 40 and below 60, needs improvement   *)
(* when it is below 40.                                                    *)
(***************************************************************************)
C12_SizingLadder ==
    InsightsAsked =>
        LET st == call.stats
            sizing == MessagesAmong({"Excellent PR sizing", "Good PR sizing", "PR sizing needs improvement"})
        IN /\ result.status = "return"
           /\ Cardinality(sizing) = 1
           /\ \A i \in sizing :
                result.value.rows[i].text =
                    IF PctGe(st.ideal_count, st.total_prs, 60) THEN "Excellent PR sizing"
                    ELSE IF PctGe(st.ideal_count, st.total_prs, 40) THEN "Good PR sizing"
                    ELSE "PR sizing needs improvement"

\* an ideal percentage of exactly 60 is reported as Excellent
C12_Witness ==
    /\ InsightsAsked
    /\ call.stats.ideal_count * 100 = 60 * call.stats.total_prs
    /\ \E i \in 1..Len(result.value.rows) : result.value.rows[i].text = "Excellent PR sizing"

(***************************************************************************)
(* C13: on a loaded store and stats with total_prs > 0 the insights hold   *)
(* exactly one message on too large PRs: Too many when their percentage is *)
(* above 10, Some when it is above 5 and at most 10, Good size control     *)
(* when it is at most 5.                                                   *)
(***************************************************************************)
C13_TooLargeLadder ==
    InsightsAsked =>
        LET st == call.stats
            large == MessagesAmong({"Too many large PRs", "Some large PRs", "Good size control"})
        IN /\ result.status = "return"
           /\ Cardinality(large) = 1
           /\ \A i \in large :
                result.value.rows[i].text =
                    IF PctGt(st.too_large_count, st.total_prs, 10) THEN "Too many large PRs"
                    ELSE IF PctGt(st.too_large_count, st.total_prs, 5) THEN "Some large PRs"
                    ELSE "Good size control"

\* a too large percentage of exactly 10 is reported as Some large PRs
C13_Witness ==
    /\ InsightsAsked
    /\ call.stats.too_large_count * 100 = 10 * call.stats.total_prs
    /\ \E i \in 1..Len(result.value.rows) : result.value.rows[i].text = "Some large PRs"

(***************************************************************************)
(* C14: the message on recent PRs is getting larger only when the recent   *)
(* average is strictly above 1.2 times the overall average, getting        *)
(* smaller only when it is strictly below 0.8 times it, and Consistent     *)
(* otherwise, so also when it is exactly 1.2 or 0.8 times it.              *)
(***************************************************************************)
C14_RecencyStrict ==
    InsightsAsked =>
        LET st == call.stats
            recency == MessagesAmong({"Recent PRs are getting larger", "Recent PRs are getting smaller", "Consistent PR sizing"})
        IN /\ result.status = "return"
           /\ \A i \in recency :
                result.value.rows[i].text =
                    IF AboveRatio(st.recent_avg_lines, st.avg_lines, 12) THEN "Recent PRs are getting larger"
                    ELSE IF BelowRatio(st.recent_avg_lines, st.avg_lines, 8)
                         THEN "Recent PRs are getting smaller"
                         ELSE "Consistent PR sizing"

\* a recent average of exactly 1.2 times the overall one is Consistent
C14_Witness ==
    /\ InsightsAsked
    /\ call.stats.avg_lines = Frac(1000, 1)
    /\ call.stats.recent_avg_lines = Frac(1200, 1)
    /\ \E i \in 1..Len(result.value.rows) : result.value.rows[i].text = "Consistent PR sizing"

(***************************************************************************)
(* C15: the insights are the empty string when the store is not loaded or  *)
(* total_prs is 0; otherwise they are exactly three messages, the sizing   *)
(* one, the one on too large PRs and the one on recent PRs, in this order, *)
(* each chosen from its own inputs alone.                                  *)
(***************************************************************************)
C15_InsightsThreeMessages ==
    call.op = "generate_insights_section" =>
        LET st == call.stats IN
        /\ result.status = "return"
        /\ (~is_loaded(df) \/ st.total_prs = 0) => result.value = EmptyText
        /\ (is_loaded(df) /\ st.total_prs > 0) =>
             LET rows == result.value.rows
                 \* the section for the same stats but for other inputs of the
                 \* two other ladders
                 alt(other) == generate_insights_section(df, other).value.rows
                 recency == [st EXCEPT !.ideal_count = 0, !.too_large_count = 0]
                 sizing == [recency EXCEPT !.ideal_count = st.ideal_count,
                                           !.recent_avg_lines = Frac(1000, 1),
                                           !.avg_lines = Frac(1000, 1)]
                 large == [sizing EXCEPT !.ideal_count = 0,
                                         !.too_large_count = st.too_large_count]
             IN /\ Len(rows) = 3
                /\ rows[1].text \in {"Excellent PR sizing", "Good PR sizing", "PR sizing needs improvement"}
                /\ rows[2].text \in {"Too many large PRs", "Some large PRs", "Good size control"}
                /\ rows[3].text \in {"Recent PRs are getting larger", "Recent PRs are getting smaller", "Consistent PR sizing"}
                /\ rows[1] = alt(sizing)[1]
                /\ rows[2] = alt(large)[2]
                /\ rows[3] = alt(recency)[3]

\* three messages, each from another rung of its ladder
C15_Witness ==
    /\ InsightsAsked
    /\ Len(result.value.rows) = 3
    /\ result.value.rows[1].text = "Excellent PR sizing"
    /\ result.value.rows[2].text = "Too many large PRs"
    /\ result.value.rows[3].text = "Recent PRs are getting smaller"

(***************************************************************************)
(* C16: the recommendations are the empty string when the store is not     *)
(* loaded or total_prs is 0; otherwise they hold the block Focus on        *)
(* smaller PRs exactly when the ideal percentage is below 50, the block    *)
(* Review large PR process exactly when the too large percentage is above  *)
(* 5, the block Recent trend concern exactly when recent_avg_lines is      *)
(* above 1000, in this order, and General Best Practices always, last.     *)
(***************************************************************************)
C16_RecommendationBlocks ==
    call.op = "generate_recommendations_section" =>
        LET st == call.stats
            one(present, text) == IF present THEN <<text>> ELSE <<>>
        IN /\ result.status = "return"
           /\ (~is_loaded(df) \/ st.total_prs = 0) => result.value = EmptyText
           /\ (is_loaded(df) /\ st.total_prs > 0) =>
                [i \in 1..Len(result.value.rows) |-> result.value.rows[i].text] =
                    one(~PctGe(st.ideal_count, st.total_prs, 50), "Focus on smaller PRs")
                    \o one(PctGt(st.too_large_count, st.total_prs, 5), "Review large PR process")
                    \o one(AboveRatio(st.recent_avg_lines, Frac(1000, 1), 10),
                           "Recent trend concern")
                    \o <<"General Best Practices">>

\* an ideal percentage of exactly 50, a too large one of exactly 5 and a
\* recent average of exactly 1000 give the general block alone
C16_Witness ==
    /\ call.op = "generate_recommendations_section"
    /\ is_loaded(df)
    /\ call.stats.total_prs > 0
    /\ call.stats.ideal_count * 2 = call.stats.total_prs
    /\ call.stats.too_large_count * 20 = call.stats.total_prs
    /\ call.stats.recent_avg_lines = Frac(1000, 1)
    /\ Len(result.value.rows) = 1

(***************************************************************************)
(* C17: on a loaded store create_full_report returns the summary, the      *)
(* distribution table, the contributors, the large PRs, the insights and   *)
(* the recommendations, in this order, all of one statistics summary; on a *)
(* store that is not loaded it returns the title, the timestamp and "No    *)
(* data available." alone, and raises nothing.                             *)
(***************************************************************************)
C17_FullReportInOrder ==
    call.op = "create_full_report" =>
        /\ result.status = "return"
        /\ ~is_loaded(df) =>
             /\ Len(result.value) = 1
             /\ result.value[1].heading = "PR Size Trend Report"
             /\ result.value[1].rows =
                    <<Message("Generated on", <<call.now>>),
                      Message("No data available.", <<>>)>>
        /\ is_loaded(df) =>
             LET stats == get_statistics_summary(df).value IN
             /\ Len(result.value) = 6
             /\ result.value[1] = generate_summary_section(stats, call.now).value
             /\ result.value[2] = generate_distribution_table(stats).value
             /\ Return(result.value[3]) \in generate_contributors_section(df)
             /\ Return(result.value[4]) = generate_large_prs_section(df)
             /\ result.value[5] = generate_insights_section(df, stats).value
             /\ result.value[6] = generate_recommendations_section(df, stats).value

(***************************************************************************)
(* C18: when a chart fails to draw after the data has loaded (the plotting *)
(* library raises, for instance RuntimeError), the run ends with a message *)
(* and a non-zero exit code, never with exit code 0.                       *)
(***************************************************************************)
\* the run has ended and had loaded its data
MainLoaded ==
    /\ call.op = "main"
    /\ call.pc = "exit"
    /\ Len(call.argv) = 2
    /\ load_data(None, call.source).result = Return(TRUE)
\* a chart of that run has failed to draw: its file was to be written and
\* was not
ChartFailed ==
    /\ MainLoaded
    /\ call.fault # NoFault
    /\ LET d == load_data(None, call.source).df
           clean == generate_all_charts(d, viz_dir, NoFault)
       IN /\ clean.result.status = "return"
          /\ clean.files \ generate_all_charts(d, viz_dir, call.fault).files # {}

\* the message is a line printed or the traceback of an uncaught exception
C18_ChartFailureExitsNonZero ==
    ChartFailed => /\ result.value.exit_code # 0
                   /\ result.value.stdout # <<>> \/ result.value.uncaught # "none"

(***************************************************************************)
(* C19: when load_data fails in main (the source is missing, empty or of   *)
(* an invalid schema) the run prints the "No data available" message, ends *)
(* with exit code 0, writes no chart and no report, and calls neither the  *)
(* chart generation nor the report generation.                             *)
(***************************************************************************)
\* load_data has returned False in the run
MainLoadFailed ==
    /\ call.op = "main"
    /\ Len(call.argv) = 2
    /\ load_data(None, call.source).result = Return(FALSE)

C19_FailedLoadEndsQuietly ==
    MainLoadFailed =>
        /\ call.pc = "exit"
        /\ result.value.exit_code = 0
        /\ result.value.stdout = <<"No data available for visualization.">>
        /\ result.value.files = {}
        /\ \A i \in 1..Len(result.value.steps) :
             result.value.steps[i] \notin {"generate_all_charts", "create_full_report", "write"}

\* a run on a source that lacks a required column
C19_Witness ==
    /\ MainLoadFailed
    /\ call.source.kind = "csv"
    /\ "total_lines" \notin call.source.columns
    /\ result.value.exit_code = 0
    /\ result.value.steps = <<"makedirs", "load_data">>

(***************************************************************************)
(* C20: on every table load_data has accepted, also one that has the       *)
(* required columns alone or missing values in title, author,              *)
(* changed_files or url, every aggregation query and every report section  *)
(* completes without raising.                                              *)
(***************************************************************************)
C20_AcceptedSourcesNeverRaise ==
    (call.op # "__init__" /\ df # None) => result.status = "return"

(***************************************************************************)
(* C21: no query, report section or chart operation changes whether the    *)
(* store is loaded, the number or the order of its records or the value of *)
(* any of their fields; the only change is the size_category tag that      *)
(* generate_all_charts adds, and every later query and report section      *)
(* answers as on the table without the tag.  As the claim states it, the   *)
(* answers are the very same.                                              *)
(***************************************************************************)
UntaggedRows(rows) ==
    [i \in 1..Len(rows) |->
        [f \in DOMAIN rows[i] \ {"size_category"} |-> rows[i][f]]]

Untagged(d) ==
    IF d = None THEN None
    ELSE [columns |-> d.columns \ {"size_category"}, rows |-> UntaggedRows(d.rows)]

\* the outcomes the call c can have on a store holding d
Answers(c, d) ==
    CASE c.op = "get_size_distribution" -> {get_size_distribution(d)}
      [] c.op = "get_averages" -> {get_averages(d)}
      [] c.op = "get_recent_trends" -> {get_recent_trends(d, c.count)}
      [] c.op = "get_top_contributors" -> get_top_contributors(d, c.count)
      [] c.op = "get_large_prs" -> {get_large_prs(d, c.min_lines, c.count)}
      [] c.op = "get_daily_averages" -> {get_daily_averages(d)}
      [] c.op = "get_statistics_summary" -> {get_statistics_summary(d)}
      [] c.op = "generate_large_prs_section" -> {generate_large_prs_section(d)}
      [] c.op = "generate_contributors_section" -> generate_contributors_section(d)
      [] c.op = "create_full_report" -> create_full_report(d, c.now)

TableKept ==
    /\ is_loaded(df') = is_loaded(df)
    /\ Untagged(df') = Untagged(df)
    /\ df' # df =>
          /\ call'.op = "generate_all_charts"
          /\ df'.columns = df.columns \cup {"size_category"}
          /\ \A i \in 1..Len(df'.rows) :
                df'.rows[i].size_category = categorize_pr_size(df.rows[i].total_lines)

AnsweredAfterCharts == call'.op \notin {"__init__", "generate_all_charts"}

C21_TagAltersNoQuery ==
    [][/\ TableKept
       /\ AnsweredAfterCharts => result' \in Answers(call', Untagged(df'))]_vars

\* the records get_large_prs returns are records of the table: once the table
\* is tagged they carry the tag
C21_TableImmutableButForTag ==
    [][/\ TableKept
       /\ AnsweredAfterCharts =>
             IF call'.op = "get_large_prs" /\ result'.status = "return"
             THEN Return(UntaggedRows(result'.value)) \in Answers(call', Untagged(df'))
             ELSE result' \in Answers(call', Untagged(df'))]_vars

C21_Witness ==
    /\ call.op = "get_large_prs"
    /\ is_loaded(df)
    /\ "size_category" \in df.columns
    /\ result.status = "return"
    /\ Len(result.value) = 2
    /\ \E i \in 1..Len(df.rows) : df.rows[i].size_category = TooLarge

(***************************************************************************)
(* C22: generate_contributors_section returns the empty text exactly when  *)
(* the store is not loaded or no record names an author; otherwise it      *)
(* returns one row for each of the pairs get_top_contributors(10) gives,   *)
(* at most 10, in that order, with the author, the number of the author's  *)
(* records and the mean of total_lines over exactly these records.         *)
(***************************************************************************)
NoContributors ==
    ~is_loaded(df) \/ "author" \notin df.columns \/ AuthorsOf(df.rows) = {}

ContributorRowsAsClaimed ==
    /\ result.value = EmptyText <=> NoContributors
    /\ result.value # EmptyText =>
          \E top \in get_top_contributors(df, 10) :
             /\ top.status = "return"
             /\ Len(result.value.rows) = Len(top.value)
             /\ Len(result.value.rows) <= 10
             /\ \A i \in 1..Len(top.value) :
                   LET author == top.value[i][1]
                       theirs == {k \in 1..Len(df.rows) : df.rows[k].author = author}
                       lines == {k \in theirs : df.rows[k].total_lines # NaN}
                       total == SumPresent([k \in 1..Len(df.rows) |->
                                              IF k \in theirs THEN df.rows[k].total_lines
                                              ELSE NaN])
                   IN /\ result.value.rows[i].author = author
                      /\ result.value.rows[i].count = Cardinality(theirs)
                      /\ result.value.rows[i].avg_size =
                            Format1f(IF lines = {} THEN FloatNaN
                                     ELSE Frac(total, Cardinality(lines)))

C22_ContributorsSectionRows ==
    call.op = "generate_contributors_section" =>
        (result.status = "return" /\ ContributorRowsAsClaimed)

(***************************************************************************)
(* C23: generate_large_prs_section returns one row for each record of      *)
(* get_large_prs(min_lines=1500, count=10), in that order, with the number *)
(* and the url of the link, the author, the line count and the date as     *)
(* YYYY-MM-DD, or N/A where the record has no date; a record without a     *)
(* date neither makes the section raise nor leaves it empty.               *)
(***************************************************************************)
LargePrRowsAsClaimed ==
    /\ result.value = EmptyText <=> LargePrsShown = <<>>
    /\ result.value # EmptyText =>
          /\ Len(result.value.rows) = Len(LargePrsShown)
          /\ \A i \in 1..Len(LargePrsShown) :
                LET row == result.value.rows[i]
                    pr == LargePrsShown[i]
                IN /\ row.pr_number = pr.pr_number
                   /\ row.url = pr.url
                   /\ row.author = pr.author
                   /\ row.total_lines = pr.total_lines
                   /\ row.date_str = IF pr.date = NaT THEN "N/A"
                                     ELSE IF pr.date = 15 THEN "2024-01-15"
                                     ELSE "2024-01-16"

C23_LargePrsSectionRows ==
    call.op = "generate_large_prs_section" =>
        (result.status = "return" /\ LargePrRowsAsClaimed)

(***************************************************************************)
(* C24: generate_all_charts returns the empty dictionary when the store is *)
(* not loaded or a chart step raises, and otherwise a dictionary with the  *)
(* five keys pie_chart, trend_chart, contributor_chart, histogram and      *)
(* category_counts; it returns no dictionary with only some of them.       *)
(***************************************************************************)
ChartKeys == {"pie_chart", "trend_chart", "contributor_chart", "histogram", "category_counts"}

\* the plotting library raises in a chart that is drawn: the trend chart is
\* drawn when a record has a date, the contributor chart when one has an author
ChartStepRaises ==
    LET chart == call.fault.chart IN
    /\ chart # "none"
    /\ chart = "trend" => \E i \in 1..Len(df.rows) : df.rows[i].date # NaT
    /\ chart = "contributor" =>
          ("author" \in df.columns /\ AuthorsOf(df.rows) # {})

AllOrNothing ==
    IF ~is_loaded(df) \/ ChartStepRaises
    THEN result.value = <<>>
    ELSE DOMAIN result.value = ChartKeys

C24_ChartsAllOrNothing ==
    call.op = "generate_all_charts" => (result.status = "return" /\ AllOrNothing)

(***************************************************************************)
(* C25: when the command line has not exactly one argument after the       *)
(* script name, none or more than one, main prints the usage message and   *)
(* exits with code 1, having made no directory and loaded nothing.         *)
(***************************************************************************)
C25_UsageExit ==
    (call.op = "main" /\ Len(call.argv) - 1 # 1) =>
        /\ result.status = "exit"
        /\ result.value.exit_code = 1
        /\ result.value.uncaught = "none"
        /\ result.value.stdout =
              <<"Usage: python3 visualize_pr_trends.py <path_to_metrics_csv>">>
        /\ result.value.dirs = {}
        /\ result.value.files = {}
        /\ "load_data" \notin {result.value.steps[i] : i \in 1..Len(result.value.steps)}
        /\ df = None

C25_Witness ==
    /\ call.op = "main"
    /\ Len(call.argv) = 3
    /\ call.source.kind = "csv"
    /\ Len(call.source.rows) = 1
    /\ result.status = "exit"
    /\ result.value.exit_code = 1

(***************************************************************************)
(* C26: the steps of a run of main come in the order: the output           *)
(* directories, load_data (once), generate_all_charts with the charts in   *)
(* the order pie, trend, contributor, histogram, create_full_report and    *)
(* the writing of the report file; the report file is written at most once *)
(* and only after a load that succeeded and a chart generation that gave a *)
(* result that is not empty.                                               *)
(***************************************************************************)
StepsInOrder ==
    <<"makedirs", "load_data", "generate_all_charts", "create_full_report", "write">>
ChartsInOrder ==
    <<"Created size distribution chart", "Created trend line chart",
      "Created contributor chart", "Created size histogram">>
IsPrefix(s, t) == Len(s) <= Len(t) /\ s = SubSeq(t, 1, Len(s))
Lines(stdout) == {stdout[i] : i \in 1..Len(stdout)}
RECURSIVE ChartLines(_)
\* the lines of stdout that report a chart, in the order printed
ChartLines(stdout) ==
    IF stdout = <<>> THEN <<>>
    ELSE IF Head(stdout) \in Lines(ChartsInOrder)
         THEN <<Head(stdout)>> \o ChartLines(Tail(stdout))
         ELSE ChartLines(Tail(stdout))

C26_StepsInOrder ==
    call.op = "main" =>
        LET run == result.value
            written == "write" \in Lines(run.steps)
        IN /\ IsPrefix(run.steps, StepsInOrder)
           /\ IsPrefix(ChartLines(run.stdout), ChartsInOrder)
           /\ ChartLines(run.stdout) # <<>> => "generate_all_charts" \in Lines(run.steps)
           /\ written <=> report_file \in run.files
           /\ written =>
                 /\ is_loaded(df)
                 /\ ChartLines(run.stdout) = ChartsInOrder
                 /\ "Error generating charts" \notin Lines(run.stdout)
                 /\ "Error generating charts." \notin Lines(run.stdout)
           /\ "Error generating charts." \in Lines(run.stdout) =>
                 (~written /\ "create_full_report" \notin Lines(run.steps))

C26_Witness ==
    /\ call.op = "main"
    /\ result.status = "exit"
    /\ result.value.steps = StepsInOrder
    /\ report_file \in result.value.files
    /\ Len(df.rows) = 2

(***************************************************************************)
(* C27: on a loaded table each count of get_size_distribution is the       *)
(* number of records that categorize_pr_size puts into the category of     *)
(* that count, and the category_counts of the pie chart are the counts of  *)
(* get_size_distribution that are not zero.                                *)
(***************************************************************************)
Categories == <<Ideal, Good, Large, TooLarge>>
Categorized(c) ==
    Cardinality({i \in 1..Len(df.rows) : categorize_pr_size(df.rows[i].total_lines) = c})

C27_DistributionAgreesWithCategories ==
    /\ (call.op = "get_size_distribution" /\ is_loaded(df)) =>
          /\ result.status = "return"
          /\ \A k \in 1..4 : result.value[k] = Categorized(Categories[k])
    /\ (call.op = "generate_all_charts" /\ result.status = "return"
          /\ result.value # <<>>) =>
          LET category_counts == result.value.category_counts
              distribution == get_size_distribution(df).value
          IN \A k \in 1..4 :
                IF Categories[k] \in DOMAIN category_counts
                THEN category_counts[Categories[k]] = distribution[k]
                ELSE distribution[k] = 0

(***************************************************************************)
(* C28: on a loaded table of at most 30 records get_statistics_summary     *)
(* gives recent_avg_lines = avg_lines and recent_avg_files = avg_files,    *)
(* and the report of create_full_report has the insight "Consistent PR     *)
(* sizing", never "Recent PRs are getting larger" or "... smaller".        *)
(***************************************************************************)
RecencyMessages(report) ==
    {report[5].rows[i].text : i \in 1..Len(report[5].rows)}
        \cap {"Consistent PR sizing", "Recent PRs are getting larger",
              "Recent PRs are getting smaller"}

C28_SmallTablesConsistent ==
    (is_loaded(df) /\ Len(df.rows) <= 30) =>
        /\ call.op = "get_statistics_summary" =>
              /\ result.status = "return"
              /\ result.value.recent_avg_lines = result.value.avg_lines
              /\ result.value.recent_avg_files = result.value.avg_files
        /\ call.op = "create_full_report" =>
              /\ result.status = "return"
              /\ RecencyMessages(result.value) = {"Consistent PR sizing"}

(***************************************************************************)
(* C29: the insights and the recommendations made from the same stats      *)
(* agree: the block Review large PR process is among the recommendations   *)
(* exactly when the insight on too large PRs is Some large PRs or Too many *)
(* large PRs, never with Good size control, and with the insight Excellent *)
(* PR sizing the block Focus on smaller PRs is absent.                     *)
(***************************************************************************)
TextsOf(section) == {section.rows[i].text : i \in 1..Len(section.rows)}

\* the two sections of the stats of the call: the one the call returned and
\* the other one as the report makes it from the same stats
InsightsOfCall ==
    IF call.op = "generate_insights_section" THEN result.value
    ELSE generate_insights_section(df, call.stats).value
RecommendationsOfCall ==
    IF call.op = "generate_recommendations_section" THEN result.value
    ELSE generate_recommendations_section(df, call.stats).value

C29_InsightsAgreeWithRecommendations ==
    (call.op \in {"generate_insights_section", "generate_recommendations_section"}
       /\ is_loaded(df) /\ call.stats.total_prs > 0) =>
        LET insights == TextsOf(InsightsOfCall)
            recommendations == TextsOf(RecommendationsOfCall)
        IN /\ "Review large PR process" \in recommendations <=>
                 insights \cap {"Some large PRs", "Too many large PRs"} # {}
           /\ "Review large PR process" \in recommendations =>
                 "Good size control" \notin insights
           /\ "Excellent PR sizing" \in insights =>
                 "Focus on smaller PRs" \notin recommendations

\* a too large percentage just above 5 and an ideal one of at least 60
C29_Witness ==
    /\ call.op = "generate_recommendations_section"
    /\ is_loaded(df)
    /\ call.stats.total_prs = MaxLadderTotal
    /\ call.stats.too_large_count * 100 > 5 * call.stats.total_prs
    /\ call.stats.too_large_count * 100 <= 10 * call.stats.total_prs
    /\ call.stats.ideal_count * 100 >= 60 * call.stats.total_prs
    /\ "Review large PR process" \in TextsOf(result.value)
    /\ "Focus on smaller PRs" \notin TextsOf(result.value)

(***************************************************************************)
(* C30: on a loaded table the large PRs section has min(10, large_count +  *)
(* too_large_count) rows, the counts being those of get_size_distribution, *)
(* and it is the empty text exactly when both counts are 0, that is when   *)
(* no record has more than 1500 lines.                                     *)
(***************************************************************************)
RowsShown == IF result.value = EmptyText THEN 0 ELSE Len(result.value.rows)

C30_LargePrRowsMatchDistribution ==
    (call.op = "generate_large_prs_section" /\ is_loaded(df)) =>
        LET distribution == get_size_distribution(df).value
            large_count == distribution[3]
            too_large_count == distribution[4]
        IN /\ result.status = "return"
           /\ RowsShown = Min(10, large_count + too_large_count)
           /\ result.value = EmptyText <=> (large_count = 0 /\ too_large_count = 0)
           /\ result.value = EmptyText <=>
                 ~\E i \in 1..Len(df.rows) :
                      df.rows[i].total_lines # NaN /\ df.rows[i].total_lines > 1500

====
